---- MODULE Spec2Model ----
(***************************************************************************)
(* Model of the govote_voting_v1 smart contract (src/src/lib.rs).          *)
(*                                                                         *)
(* The contract state is the struct State: the voter ledger, the proposal  *)
(* table, the status flag, the set of winning proposal ids and the expiry. *)
(* title and description are written once by State::empty and read only by *)
(* the view function; they are left out.                                   *)
(*                                                                         *)
(* Every receive function is one action.  The variable `last` records the  *)
(* last call: its context (sender, parameter bytes, slot time), its result *)
(* and the contract state the call started from.  The state variables hold *)
(* what the code itself wrote during the call, whether it returned Ok or   *)
(* an error.                                                               *)
(***************************************************************************)
EXTENDS Integers, Sequences, FiniteSets, TLC

VARIABLES voters, proposals, status, winning_proposal_id, expiry, last

vars == <<voters, proposals, status, winning_proposal_id, expiry, last>>

(* ------------------------------ bounds --------------------------------- *)
NumAccounts == 2
MaxProposals == 2
MaxTime == 1

(* ------------------------- types and inputs ---------------------------- *)
\* type ProposalId = u8
ProposalIdRange == 256

AsProposalId(i) == i % ProposalIdRange

AccountAddresses == {[kind |-> "Account", id |-> i] : i \in 1..NumAccounts}
\* Contract addresses are never stored by the contract: one stands for all.
ContractAddresses == {[kind |-> "Contract", id |-> 0]}
Addresses == AccountAddresses \cup ContractAddresses

Timestamps == 0..MaxTime

\* The parameter of a call is a byte string; GetVoteParams is one u8.
VoteParameters == {<< >>} \cup {<<b>> : b \in 0..MaxProposals}

\* Proposal names are inert text: the i-th name of a list is written "name", i.
ProposalNameLists == {[i \in 1..n |-> <<"name", i>>] : n \in 0..MaxProposals}
LongProposalNameLists ==
    {[i \in 1..n |-> <<"name", i>>] :
        n \in (ProposalIdRange - 1)..(ProposalIdRange + 1)}

EmptyMap == [x \in {} |-> 0]

\* StateMap::insert: the value under k is replaced if there is one.
MapInsert(m, k, v) == (k :> v) @@ m

\* VoteCount = u32 and weight: u32.  A u32 value v is held as v when
\* v < 2^31 and as v - 2^32 otherwise (its two's complement reading), so
\* that the wrapping arithmetic of the release build stays within
\* the range of the model checker's integers.
U32Add(a, b) == a + b
U32Sub(a, b) == a - b
U32Less(a, b) == IF (a >= 0) = (b >= 0) THEN a < b ELSE a >= 0

VoterStateDefault == [weight |-> 0, voted |-> FALSE, vote |-> 0]

ProposalNew(name, vote_count) == [name |-> name, vote_count |-> vote_count]

Result(err, st) == [err |-> err, st |-> st]

(* ---------------------------- State::empty ----------------------------- *)
\* The loop of State::empty over proposal_names.iter().enumerate(): the map
\* that inserting the lo-th to the hi-th name (counted from 1) in list order
\* into `map` gives.  The list is walked by halves to keep the evaluation
\* shallow: inserting the second half after the first lets the entries of
\* the second half replace those of the first under the same id.
RECURSIVE InsertProposals(_, _, _, _)
InsertProposals(map, proposal_names, lo, hi) ==
    IF lo > hi THEN map
    ELSE IF lo = hi
    THEN MapInsert(map, AsProposalId(lo - 1), ProposalNew(proposal_names[lo], 0))
    ELSE LET mid == (lo + hi) \div 2
         IN  InsertProposals(EmptyMap, proposal_names, mid + 1, hi)
                 @@ InsertProposals(map, proposal_names, lo, mid)

State_empty(proposal_names, exp) ==
    [voters |-> EmptyMap,
     proposals |-> InsertProposals(EmptyMap, proposal_names, 1, Len(proposal_names)),
     status |-> "InProcess",
     winning_proposal_id |-> {},
     expiry |-> exp]

(* ----------------------------- State::vote ----------------------------- *)
\* Variant of State_vote: the previous vote is not undone.
State_vote_NoUndo(s, voter_address, proposal_id) ==
    LET entered == IF voter_address \in DOMAIN s.voters THEN s.voters
                   ELSE MapInsert(s.voters, voter_address, VoterStateDefault)
        voter_state == entered[voter_address]
        s1 == [s EXCEPT !.voters = entered]
    IN  IF FALSE /\ voter_state.vote \notin DOMAIN s.proposals
        THEN Result("ProposalIsNotFound", s1)
        ELSE LET undone == IF FALSE
                           THEN [s.proposals EXCEPT ![voter_state.vote].vote_count =
                                     U32Sub(@, voter_state.weight)]
                           ELSE s.proposals
                 s2 == [s1 EXCEPT !.proposals = undone]
             IN  IF proposal_id \notin DOMAIN undone
                 THEN Result("ProposalIsNotFound", s2)
                 ELSE Result("Ok",
                        [s2 EXCEPT
                           !.voters[voter_address] =
                               [weight |-> 1, voted |-> TRUE, vote |-> proposal_id],
                           !.proposals[proposal_id].vote_count = U32Add(@, 1)])

\* Variant of State_vote: the undo is applied to the new proposal
\* instead of the previously voted one.
State_vote_UndoesTarget(s, voter_address, proposal_id) ==
    LET entered == IF voter_address \in DOMAIN s.voters THEN s.voters
                   ELSE MapInsert(s.voters, voter_address, VoterStateDefault)
        voter_state == entered[voter_address]
        s1 == [s EXCEPT !.voters = entered]
    IN  IF voter_state.voted /\ proposal_id \notin DOMAIN s.proposals
        THEN Result("ProposalIsNotFound", s1)
        ELSE LET undone == IF voter_state.voted
                           THEN [s.proposals EXCEPT ![proposal_id].vote_count =
                                     U32Sub(@, voter_state.weight)]
                           ELSE s.proposals
                 s2 == [s1 EXCEPT !.proposals = undone]
             IN  IF proposal_id \notin DOMAIN undone
                 THEN Result("ProposalIsNotFound", s2)
                 ELSE Result("Ok",
                        [s2 EXCEPT
                           !.voters[voter_address] =
                               [weight |-> 1, voted |-> TRUE, vote |-> proposal_id],
                           !.proposals[proposal_id].vote_count = U32Add(@, 1)])

\* Variant of State_vote: the undo does not look at the voted flag.
State_vote_UndoIgnoresVoted(s, voter_address, proposal_id) ==
    LET entered == IF voter_address \in DOMAIN s.voters THEN s.voters
                   ELSE MapInsert(s.voters, voter_address, VoterStateDefault)
        voter_state == entered[voter_address]
        s1 == [s EXCEPT !.voters = entered]
    IN  IF TRUE /\ voter_state.vote \notin DOMAIN s.proposals
        THEN Result("ProposalIsNotFound", s1)
        ELSE LET undone == IF TRUE
                           THEN [s.proposals EXCEPT ![voter_state.vote].vote_count =
                                     U32Sub(@, voter_state.weight)]
                           ELSE s.proposals
                 s2 == [s1 EXCEPT !.proposals = undone]
             IN  IF proposal_id \notin DOMAIN undone
                 THEN Result("ProposalIsNotFound", s2)
                 ELSE Result("Ok",
                        [s2 EXCEPT
                           !.voters[voter_address] =
                               [weight |-> 1, voted |-> TRUE, vote |-> proposal_id],
                           !.proposals[proposal_id].vote_count = U32Add(@, 1)])

\* Variant of State_vote: the record stores a one-based proposal id.
State_vote_OneBasedVote(s, voter_address, proposal_id) ==
    LET entered == IF voter_address \in DOMAIN s.voters THEN s.voters
                   ELSE MapInsert(s.voters, voter_address, VoterStateDefault)
        voter_state == entered[voter_address]
        s1 == [s EXCEPT !.voters = entered]
    IN  IF voter_state.voted /\ voter_state.vote \notin DOMAIN s.proposals
        THEN Result("ProposalIsNotFound", s1)
        ELSE LET undone == IF voter_state.voted
                           THEN [s.proposals EXCEPT ![voter_state.vote].vote_count =
                                     U32Sub(@, voter_state.weight)]
                           ELSE s.proposals
                 s2 == [s1 EXCEPT !.proposals = undone]
             IN  IF proposal_id \notin DOMAIN undone
                 THEN Result("ProposalIsNotFound", s2)
                 ELSE Result("Ok",
                        [s2 EXCEPT
                           !.voters[voter_address] =
                               [weight |-> 1, voted |-> TRUE, vote |-> proposal_id + 1],
                           !.proposals[proposal_id].vote_count = U32Add(@, 1)])

\* Variant of State_vote: the weight of the record is not set to 1.
State_vote_WeightNotSet(s, voter_address, proposal_id) ==
    LET entered == IF voter_address \in DOMAIN s.voters THEN s.voters
                   ELSE MapInsert(s.voters, voter_address, VoterStateDefault)
        voter_state == entered[voter_address]
        s1 == [s EXCEPT !.voters = entered]
    IN  IF voter_state.voted /\ voter_state.vote \notin DOMAIN s.proposals
        THEN Result("ProposalIsNotFound", s1)
        ELSE LET undone == IF voter_state.voted
                           THEN [s.proposals EXCEPT ![voter_state.vote].vote_count =
                                     U32Sub(@, voter_state.weight)]
                           ELSE s.proposals
                 s2 == [s1 EXCEPT !.proposals = undone]
             IN  IF proposal_id \notin DOMAIN undone
                 THEN Result("ProposalIsNotFound", s2)
                 ELSE Result("Ok",
                        [s2 EXCEPT
                           !.voters[voter_address] =
                               [weight |-> voter_state.weight, voted |-> TRUE, vote |-> proposal_id],
                           !.proposals[proposal_id].vote_count = U32Add(@, voter_state.weight)])

State_vote(s, voter_address, proposal_id) ==
    LET entered == IF voter_address \in DOMAIN s.voters THEN s.voters
                   ELSE MapInsert(s.voters, voter_address, VoterStateDefault)
        voter_state == entered[voter_address]
        s1 == [s EXCEPT !.voters = entered]
    IN  IF voter_state.voted /\ voter_state.vote \notin DOMAIN s.proposals
        THEN Result("ProposalIsNotFound", s1)
        ELSE LET undone == IF voter_state.voted
                           THEN [s.proposals EXCEPT ![voter_state.vote].vote_count =
                                     U32Sub(@, voter_state.weight)]
                           ELSE s.proposals
                 s2 == [s1 EXCEPT !.proposals = undone]
             IN  IF proposal_id \notin DOMAIN undone
                 THEN Result("ProposalIsNotFound", s2)
                 ELSE Result("Ok",
                        [s2 EXCEPT
                           !.voters[voter_address] =
                               [weight |-> 1, voted |-> TRUE, vote |-> proposal_id],
                           !.proposals[proposal_id].vote_count = U32Add(@, 1)])

(* -------------------------- State::cancel_vote ------------------------- *)
\* Variant of State_cancel_vote: the proposal's count is not decremented.
State_cancel_vote_NoDecrement(s, voter_address) ==
    IF voter_address \notin DOMAIN s.voters
    THEN Result("VoterIsNotFound", s)
    ELSE LET voter_state == s.voters[voter_address]
         IN  IF voter_state.voted # TRUE
             THEN Result("NotVoted", s)
             ELSE IF voter_state.vote \notin DOMAIN s.proposals
             THEN Result("ProposalIsNotFound", s)
             ELSE Result("Ok",
                    [s EXCEPT
                       !.voters[voter_address] =
                           [voter_state EXCEPT !.voted = FALSE, !.vote = 0]])

\* Variant of State_cancel_vote: the voted flag is not cleared.
State_cancel_vote_KeepsVoted(s, voter_address) ==
    IF voter_address \notin DOMAIN s.voters
    THEN Result("VoterIsNotFound", s)
    ELSE LET voter_state == s.voters[voter_address]
         IN  IF voter_state.voted # TRUE
             THEN Result("NotVoted", s)
             ELSE IF voter_state.vote \notin DOMAIN s.proposals
             THEN Result("ProposalIsNotFound", s)
             ELSE Result("Ok",
                    [s EXCEPT
                       !.proposals[voter_state.vote].vote_count =
                           U32Sub(@, voter_state.weight),
                       !.voters[voter_address] =
                           [voter_state EXCEPT !.vote = 0]])

\* Variant of State_cancel_vote: the voted flag is not checked.
State_cancel_vote_NoVotedCheck(s, voter_address) ==
    IF voter_address \notin DOMAIN s.voters
    THEN Result("VoterIsNotFound", s)
    ELSE LET voter_state == s.voters[voter_address]
         IN  IF voter_state.vote \notin DOMAIN s.proposals
             THEN Result("ProposalIsNotFound", s)
             ELSE Result("Ok",
                    [s EXCEPT
                       !.proposals[voter_state.vote].vote_count =
                           U32Sub(@, voter_state.weight),
                       !.voters[voter_address] =
                           [voter_state EXCEPT !.voted = FALSE, !.vote = 0]])

State_cancel_vote(s, voter_address) ==
    IF voter_address \notin DOMAIN s.voters
    THEN Result("VoterIsNotFound", s)
    ELSE LET voter_state == s.voters[voter_address]
         IN  IF voter_state.voted # TRUE
             THEN Result("NotVoted", s)
             ELSE IF voter_state.vote \notin DOMAIN s.proposals
             THEN Result("ProposalIsNotFound", s)
             ELSE Result("Ok",
                    [s EXCEPT
                       !.proposals[voter_state.vote].vote_count =
                           U32Sub(@, voter_state.weight),
                       !.voters[voter_address] =
                           [voter_state EXCEPT !.voted = FALSE, !.vote = 0]])

(* ---------------------------- contract_vote ---------------------------- *)
\* ensure!(slot_time <= state.expiry, ContractError::Expired)
\* Variant of WithinExpiry: the deadline itself is already too late.
WithinExpiry_Strict(slot_time, exp) == slot_time < exp

WithinExpiry(slot_time, exp) == slot_time <= exp

\* Variant of contract_vote: the status is not checked.
contract_vote_NoStatusCheck(ctx, s) ==
    IF Len(ctx.parameter) < 1 THEN Result("ParseParams", s)
    ELSE IF ctx.sender.kind = "Contract" THEN Result("ContractSender", s)
    ELSE IF ctx.parameter[1] \notin DOMAIN s.proposals
         THEN Result("ProposalIsNotFound", s)
    ELSE IF ~WithinExpiry(ctx.slot_time, s.expiry) THEN Result("Expired", s)
    ELSE State_vote(s, ctx.sender.id, ctx.parameter[1])

\* Variant of contract_vote: the sender is matched after the other checks.
contract_vote_SenderLast(ctx, s) ==
    IF Len(ctx.parameter) < 1 THEN Result("ParseParams", s)
    ELSE IF ctx.parameter[1] \notin DOMAIN s.proposals
         THEN Result("ProposalIsNotFound", s)
    ELSE IF ~(s.status # "Finished") THEN Result("AlreadyFinished", s)
    ELSE IF ~WithinExpiry(ctx.slot_time, s.expiry) THEN Result("Expired", s)
    ELSE IF ctx.sender.kind = "Contract" THEN Result("ContractSender", s)
    ELSE State_vote(s, ctx.sender.id, ctx.parameter[1])

\* Variant of contract_vote: the proposal is not looked up before State::vote.
contract_vote_NoProposalCheck(ctx, s) ==
    IF Len(ctx.parameter) < 1 THEN Result("ParseParams", s)
    ELSE IF ctx.sender.kind = "Contract" THEN Result("ContractSender", s)
    ELSE IF ~(s.status # "Finished") THEN Result("AlreadyFinished", s)
    ELSE IF ~WithinExpiry(ctx.slot_time, s.expiry) THEN Result("Expired", s)
    ELSE State_vote(s, ctx.sender.id, ctx.parameter[1])

contract_vote(ctx, s) ==
    IF Len(ctx.parameter) < 1 THEN Result("ParseParams", s)
    ELSE IF ctx.sender.kind = "Contract" THEN Result("ContractSender", s)
    ELSE IF ctx.parameter[1] \notin DOMAIN s.proposals
         THEN Result("ProposalIsNotFound", s)
    ELSE IF ~(s.status # "Finished") THEN Result("AlreadyFinished", s)
    ELSE IF ~WithinExpiry(ctx.slot_time, s.expiry) THEN Result("Expired", s)
    ELSE State_vote(s, ctx.sender.id, ctx.parameter[1])

(* ---------------------- contract_winning_proposal ---------------------- *)
RECURSIVE SortedKeys(_)
SortedKeys(keys) ==
    IF keys = {} THEN << >>
    ELSE LET k == CHOOSE x \in keys : \A y \in keys : x <= y
         IN  <<k>> \o SortedKeys(keys \ {k})

\* One iteration of the loop over state.proposals.iter(); acc is the pair
\* of winning_vote_count and state.winning_proposal_id.
\* Variant of TallyStep: a proposal that equals the running maximum is skipped.
TallyStep_NoTie(acc, proposal_id, proposal) ==
    IF U32Less(acc.winning_vote_count, proposal.vote_count)
    THEN [winning_vote_count |-> proposal.vote_count,
          winning_proposal_id |-> {proposal_id}]
    ELSE acc

TallyStep(acc, proposal_id, proposal) ==
    IF U32Less(acc.winning_vote_count, proposal.vote_count)
    THEN [winning_vote_count |-> proposal.vote_count,
          winning_proposal_id |-> {proposal_id}]
    ELSE IF acc.winning_vote_count = proposal.vote_count
    THEN [acc EXCEPT !.winning_proposal_id = @ \cup {proposal_id}]
    ELSE acc

RECURSIVE TallyLoop(_, _, _, _)
TallyLoop(acc, map, keys, i) ==
    IF i > Len(keys) THEN acc
    ELSE TallyLoop(TallyStep(acc, keys[i], map[keys[i]]), map, keys, i + 1)

\* Variant of contract_winning_proposal: the status is not checked.
contract_winning_proposal_NoStatusCheck(ctx, s) ==
    LET acc == TallyLoop([winning_vote_count |-> 0,
                          winning_proposal_id |-> s.winning_proposal_id],
                         s.proposals, SortedKeys(DOMAIN s.proposals), 1)
    IN  Result("Ok", [s EXCEPT !.winning_proposal_id = acc.winning_proposal_id,
                               !.status = "Finished"])

\* Variant of contract_winning_proposal: the commented-out check
\* ensure!(state.expiry < slot_time, ContractError::NotExpired) is active.
contract_winning_proposal_NotExpired(ctx, s) ==
    IF ~(s.status # "Finished") THEN Result("AlreadyFinished", s)
    ELSE IF ~(s.expiry < ctx.slot_time) THEN Result("NotExpired", s)
    ELSE LET acc == TallyLoop([winning_vote_count |-> 0,
                               winning_proposal_id |-> s.winning_proposal_id],
                              s.proposals, SortedKeys(DOMAIN s.proposals), 1)
         IN  Result("Ok", [s EXCEPT !.winning_proposal_id = acc.winning_proposal_id,
                                    !.status = "Finished"])

\* Variant of contract_winning_proposal: status is not set to Finished.
contract_winning_proposal_StatusNotSet(ctx, s) ==
    IF ~(s.status # "Finished") THEN Result("AlreadyFinished", s)
    ELSE LET acc == TallyLoop([winning_vote_count |-> 0,
                               winning_proposal_id |-> s.winning_proposal_id],
                              s.proposals, SortedKeys(DOMAIN s.proposals), 1)
         IN  Result("Ok", [s EXCEPT !.winning_proposal_id = acc.winning_proposal_id])

contract_winning_proposal(ctx, s) ==
    IF ~(s.status # "Finished") THEN Result("AlreadyFinished", s)
    ELSE LET acc == TallyLoop([winning_vote_count |-> 0,
                               winning_proposal_id |-> s.winning_proposal_id],
                              s.proposals, SortedKeys(DOMAIN s.proposals), 1)
         IN  Result("Ok", [s EXCEPT !.winning_proposal_id = acc.winning_proposal_id,
                                    !.status = "Finished"])

(* ----------------------------- cancel_vote ----------------------------- *)
\* Variant of cancel_vote: the sender is matched after status and expiry.
cancel_vote_SenderLast(ctx, s) ==
    IF ~(s.status # "Finished") THEN Result("AlreadyFinished", s)
    ELSE IF ~WithinExpiry(ctx.slot_time, s.expiry) THEN Result("Expired", s)
    ELSE IF ctx.sender.kind = "Contract" THEN Result("ContractSender", s)
    ELSE State_cancel_vote(s, ctx.sender.id)

\* Variant of cancel_vote: the voter ledger is consulted before status and
\* expiry.
cancel_vote_LedgerFirst(ctx, s) ==
    IF ctx.sender.kind = "Contract" THEN Result("ContractSender", s)
    ELSE LET r == State_cancel_vote(s, ctx.sender.id)
         IN  IF r.err \in {"VoterIsNotFound", "NotVoted"} THEN r
             ELSE IF ~(s.status # "Finished") THEN Result("AlreadyFinished", s)
             ELSE IF ~WithinExpiry(ctx.slot_time, s.expiry) THEN Result("Expired", s)
             ELSE r

cancel_vote(ctx, s) ==
    IF ctx.sender.kind = "Contract" THEN Result("ContractSender", s)
    ELSE IF ~(s.status # "Finished") THEN Result("AlreadyFinished", s)
    ELSE IF ~WithinExpiry(ctx.slot_time, s.expiry) THEN Result("Expired", s)
    ELSE State_cancel_vote(s, ctx.sender.id)

(* --------------------------- state machine ----------------------------- *)
CurrentState ==
    [voters |-> voters, proposals |-> proposals, status |-> status,
     winning_proposal_id |-> winning_proposal_id, expiry |-> expiry]

Install(s) ==
    /\ voters' = s.voters
    /\ proposals' = s.proposals
    /\ status' = s.status
    /\ winning_proposal_id' = s.winning_proposal_id
    /\ expiry' = s.expiry

Context(sender, parameter, slot_time) ==
    [sender |-> sender, parameter |-> parameter, slot_time |-> slot_time]

Record(op, ctx, err, pre) ==
    [op |-> op, sender |-> ctx.sender, parameter |-> ctx.parameter,
     slot_time |-> ctx.slot_time, err |-> err, pre |-> pre]

\* contract_init: the state is State::empty of the init parameters.  The
\* record of the call keeps the list of proposal names it was given.
InitFrom(lists) ==
    \E proposal_names \in lists, exp \in Timestamps :
        LET s == State_empty(proposal_names, exp)
        IN  /\ voters = s.voters
            /\ proposals = s.proposals
            /\ status = s.status
            /\ winning_proposal_id = s.winning_proposal_id
            /\ expiry = s.expiry
            /\ last = Record("init",
                             Context([kind |-> "None", id |-> 0], proposal_names, 0),
                             "Ok", s)

Init == InitFrom(ProposalNameLists)

Vote ==
    \E sender \in Addresses, parameter \in VoteParameters, slot_time \in Timestamps :
        LET ctx == Context(sender, parameter, slot_time)
            r == contract_vote(ctx, CurrentState)
        IN  /\ Install(r.st)
            /\ last' = Record("vote", ctx, r.err, CurrentState)

CancelVote ==
    \E sender \in Addresses, slot_time \in Timestamps :
        LET ctx == Context(sender, << >>, slot_time)
            r == cancel_vote(ctx, CurrentState)
        IN  /\ Install(r.st)
            /\ last' = Record("cancelVote", ctx, r.err, CurrentState)

WinningProposal ==
    \E sender \in Addresses, slot_time \in Timestamps :
        LET ctx == Context(sender, << >>, slot_time)
            r == contract_winning_proposal(ctx, CurrentState)
        IN  /\ Install(r.st)
            /\ last' = Record("winningProposal", ctx, r.err, CurrentState)

Next == Vote \/ CancelVote \/ WinningProposal

Spec == Init /\ [][Next]_vars

\* The contract initialised with a list of proposal names whose length is
\* around the number of values of ProposalId.
InitLong == InitFrom(LongProposalNameLists)

\* Votes and cancels on the contract so initialised.
NextLong == Vote \/ CancelVote

SpecLong == InitLong /\ [][NextLong]_vars

(* ------------------------------ properties ----------------------------- *)
\* What the properties read of the last call.
LastIsVote == last.op = "vote" /\ Len(last.parameter) >= 1
LastProposalId == last.parameter[1]
LastByAccount == last.sender.kind = "Account"
LastByContract == last.sender.kind = "Contract"
LastUnchanged == CurrentState = last.pre

RECURSIVE SumWeight(_, _, _)
SumWeight(ledger, accounts, p) ==
    IF accounts = {} THEN 0
    ELSE LET a == CHOOSE x \in accounts : TRUE
         IN  (IF ledger[a].voted /\ ledger[a].vote = p THEN ledger[a].weight ELSE 0)
             + SumWeight(ledger, accounts \ {a}, p)

\* C1 - Conservation: in every reachable state, every proposal's vote_count
\* equals the sum of weight over the voter records with voted = true and
\* vote = that proposal's id.
C1_Conservation ==
    \A p \in DOMAIN proposals :
        proposals[p].vote_count = SumWeight(voters, DOMAIN voters, p)

\* A cancel has succeeded while another account's vote is still counted.
C1_Witness ==
    /\ last.op = "cancelVote"
    /\ last.err = "Ok"
    /\ \E p \in DOMAIN proposals : proposals[p].vote_count >= 1

MaxCountIds(table) ==
    {p \in DOMAIN table :
        \A q \in DOMAIN table : table[q].vote_count <= table[p].vote_count}

\* C2 - Tie completeness: after a successful winningProposal call,
\* winning_proposal_id is exactly the set of proposals whose vote_count is
\* the maximum over all proposals at that moment (all of them when every
\* count is zero).
C2_TieCompleteness ==
    (last.op = "winningProposal" /\ last.err = "Ok")
        => winning_proposal_id = MaxCountIds(last.pre.proposals)

\* A tally has found two proposals tied at a count above zero.
C2_Witness ==
    /\ last.op = "winningProposal"
    /\ last.err = "Ok"
    /\ Cardinality(winning_proposal_id) >= 2
    /\ \E p \in winning_proposal_id : proposals[p].vote_count >= 1

\* C3 - Tally monotonicity: no call takes status from Finished back to
\* InProcess; only a successful winningProposal call takes it from InProcess
\* to Finished; a winningProposal call made while InProcess succeeds, and one
\* made while Finished fails with AlreadyFinished and leaves
\* winning_proposal_id as it was.
C3_TallyMonotonicity ==
    /\ last.pre.status = "Finished" => status = "Finished"
    /\ (last.pre.status = "InProcess" /\ status = "Finished")
          => (last.op = "winningProposal" /\ last.err = "Ok")
    /\ last.op = "winningProposal" =>
          IF last.pre.status = "InProcess"
          THEN last.err = "Ok" /\ status = "Finished"
          ELSE /\ last.err = "AlreadyFinished"
               /\ winning_proposal_id = last.pre.winning_proposal_id

\* A second winningProposal call has been rejected, the winners being known.
C3_Witness ==
    /\ last.op = "winningProposal"
    /\ last.err = "AlreadyFinished"
    /\ winning_proposal_id # {}

\* C4 - Finished freezes the ledger: a call made while status is Finished
\* leaves every voter record and every vote_count as they were, and if it is
\* a vote or a cancelVote it fails.
C4_FinishedFreezesLedger ==
    last.pre.status = "Finished" =>
        /\ last.op \in {"vote", "cancelVote"} => last.err # "Ok"
        /\ voters = last.pre.voters
        /\ proposals = last.pre.proposals

\* An account's vote for an existing proposal, within the deadline, has been
\* rejected because the tally had run.
C4_Witness ==
    /\ LastIsVote
    /\ LastByAccount
    /\ LastProposalId \in DOMAIN proposals
    /\ last.slot_time <= expiry
    /\ last.pre.status = "Finished"
    /\ last.err = "AlreadyFinished"
    /\ \E a \in DOMAIN voters : voters[a].voted

\* C5 - Non-account sender rejection: a vote carrying a proposal id, or a
\* cancelVote, whose sender is a contract address fails with ContractSender
\* and changes nothing, whatever the proposal id, the status, the time and
\* the voter ledger are.
C5_ContractSenderRejected ==
    ((LastIsVote \/ last.op = "cancelVote") /\ LastByContract)
        => (last.err = "ContractSender" /\ LastUnchanged)

\* A contract's cancelVote, after the deadline and after the tally, has been
\* rejected as a contract sender.
C5_Witness ==
    /\ last.op = "cancelVote"
    /\ LastByContract
    /\ last.pre.status = "Finished"
    /\ last.slot_time > expiry
    /\ last.err = "ContractSender"

\* The first failing precondition of a vote, in the order of spec section 4.1.
VoteErrorListedOrder(call, s) ==
    IF call.parameter[1] \notin DOMAIN s.proposals THEN "ProposalIsNotFound"
    ELSE IF s.status # "InProcess" THEN "AlreadyFinished"
    ELSE IF ~(call.slot_time <= s.expiry) THEN "Expired"
    ELSE IF call.sender.kind # "Account" THEN "ContractSender"
    ELSE "Ok"

\* The same preconditions with the sender check moved to the front.
VoteErrorSenderFirst(call, s) ==
    IF call.sender.kind # "Account" THEN "ContractSender"
    ELSE IF call.parameter[1] \notin DOMAIN s.proposals THEN "ProposalIsNotFound"
    ELSE IF s.status # "InProcess" THEN "AlreadyFinished"
    ELSE IF ~(call.slot_time <= s.expiry) THEN "Expired"
    ELSE "Ok"

\* C6 as stated - a vote reports the first failing precondition in the order
\* proposal exists, status is InProcess, time <= expiry, sender is an account.
C6_ListedOrder ==
    LastIsVote => last.err = VoteErrorListedOrder(last, last.pre)

\* C6 - amended: a vote reports the first failing precondition in the order
\* sender is an account (ContractSender), proposal exists
\* (ProposalIsNotFound), status is InProcess (AlreadyFinished),
\* time <= expiry (Expired), and succeeds when none fails.
C6_SenderFirstOrder ==
    LastIsVote => last.err = VoteErrorSenderFirst(last, last.pre)

\* A contract's vote for a proposal that does not exist has been rejected as
\* a contract sender.
C6_Witness ==
    /\ LastIsVote
    /\ LastByContract
    /\ LastProposalId \notin DOMAIN proposals
    /\ last.err = "ContractSender"

\* The first failing precondition of a cancelVote, in the order of spec
\* section 4.2.  Only accounts have records in the voter ledger.
CancelErrorListedOrder(call, s) ==
    IF ~(call.sender.kind = "Account" /\ call.sender.id \in DOMAIN s.voters)
    THEN "VoterIsNotFound"
    ELSE IF ~s.voters[call.sender.id].voted THEN "NotVoted"
    ELSE IF s.status # "InProcess" THEN "AlreadyFinished"
    ELSE IF ~(call.slot_time <= s.expiry) THEN "Expired"
    ELSE IF call.sender.kind # "Account" THEN "ContractSender"
    ELSE "Ok"

\* The same preconditions in the order sender, status, time, record, voted.
CancelErrorSenderFirst(call, s) ==
    IF call.sender.kind # "Account" THEN "ContractSender"
    ELSE IF s.status # "InProcess" THEN "AlreadyFinished"
    ELSE IF ~(call.slot_time <= s.expiry) THEN "Expired"
    ELSE IF call.sender.id \notin DOMAIN s.voters THEN "VoterIsNotFound"
    ELSE IF ~s.voters[call.sender.id].voted THEN "NotVoted"
    ELSE "Ok"

\* C7 as stated - a cancelVote reports the first failing precondition in the
\* order record exists, voted, status is InProcess, time <= expiry, sender is
\* an account.  Stated for account senders, for whom the listed order leaves
\* no room for interpretation: an account without a record gets
\* VoterIsNotFound whatever the status and the time are.
C7_ListedOrder ==
    (last.op = "cancelVote" /\ LastByAccount)
        => last.err = CancelErrorListedOrder(last, last.pre)

\* C7 - amended: a cancelVote reports the first failing precondition in the
\* order sender is an account (ContractSender), status is InProcess
\* (AlreadyFinished), time <= expiry (Expired), record exists
\* (VoterIsNotFound), voted (NotVoted), and succeeds when none fails.
C7_SenderFirstOrder ==
    last.op = "cancelVote" => last.err = CancelErrorSenderFirst(last, last.pre)

\* An account without a record has called cancelVote after the tally and
\* has been told AlreadyFinished.
C7_Witness ==
    /\ last.op = "cancelVote"
    /\ LastByAccount
    /\ last.sender.id \notin DOMAIN voters
    /\ last.pre.status = "Finished"
    /\ last.err = "AlreadyFinished"

\* The last call is a vote by an account for an existing proposal, made
\* while status was InProcess.
LastIsOpenVote ==
    /\ LastIsVote
    /\ LastByAccount
    /\ LastProposalId \in DOMAIN last.pre.proposals
    /\ last.pre.status = "InProcess"

LastVoteRecorded ==
    /\ last.err = "Ok"
    /\ last.sender.id \in DOMAIN voters
    /\ voters[last.sender.id].voted
    /\ voters[last.sender.id].vote = LastProposalId

C9_VoteAfterDeadline ==
    (LastIsOpenVote /\ last.slot_time > last.pre.expiry) => LastVoteRecorded

\* C10 - winningProposal is gated by status only: made while status is
\* InProcess it succeeds and sets status to Finished, for every sender and
\* every time; it fails only with AlreadyFinished, and only when status was
\* Finished.
C10_TallyGatedByStatusOnly ==
    last.op = "winningProposal" =>
        /\ last.pre.status = "InProcess" => (last.err = "Ok" /\ status = "Finished")
        /\ last.err # "Ok" =>
              (last.err = "AlreadyFinished" /\ last.pre.status = "Finished")

\* A contract address has run the tally before the deadline.
C10_Witness ==
    /\ last.op = "winningProposal"
    /\ LastByContract
    /\ last.slot_time < expiry
    /\ last.err = "Ok"
    /\ status = "Finished"

\* The record the sender of the last call had before the call.
LastSenderHadRecord ==
    LastByAccount /\ last.sender.id \in DOMAIN last.pre.voters
PreRecord == last.pre.voters[last.sender.id]

\* The last call left every proposal other than those in `touched`, and
\* every voter record other than the sender's, as they were.
LastOthersUnchanged(touched) ==
    /\ DOMAIN proposals = DOMAIN last.pre.proposals
    /\ \A p \in DOMAIN proposals \ touched : proposals[p] = last.pre.proposals[p]
    /\ \A p \in touched : proposals[p].name = last.pre.proposals[p].name
    /\ DOMAIN voters = DOMAIN last.pre.voters \cup {last.sender.id}
    /\ \A a \in DOMAIN last.pre.voters \ {last.sender.id} :
           voters[a] = last.pre.voters[a]

\* The last call is a successful vote by an account whose record had
\* voted = true.
LastIsReVote ==
    /\ LastIsVote
    /\ last.err = "Ok"
    /\ LastSenderHadRecord
    /\ PreRecord.voted

\* C11 - Idempotent re-vote: when an account whose record has voted = true
\* and vote = p votes again successfully for p, every vote_count and the
\* account's record (the whole voter ledger) are the same after the call as
\* before it.
C11_IdempotentReVote ==
    (LastIsReVote /\ PreRecord.vote = LastProposalId)
        => (proposals = last.pre.proposals /\ voters = last.pre.voters)

\* An account has voted again for the proposal its vote is counted on.
C11_Witness ==
    /\ LastIsReVote
    /\ PreRecord.vote = LastProposalId
    /\ proposals[LastProposalId].vote_count >= 1
    /\ voters[last.sender.id].vote = LastProposalId

\* C12 - Switch correctness: when an account whose active vote is on A votes
\* successfully for another proposal B, A's vote_count goes down by the
\* record's weight, B's goes up by the same amount, the record has vote = B,
\* and every other proposal and every other account's record are unchanged.
C12_SwitchCorrectness ==
    (LastIsReVote /\ PreRecord.vote # LastProposalId) =>
        /\ proposals[PreRecord.vote].vote_count =
               last.pre.proposals[PreRecord.vote].vote_count - PreRecord.weight
        /\ proposals[LastProposalId].vote_count =
               last.pre.proposals[LastProposalId].vote_count + PreRecord.weight
        /\ voters[last.sender.id].voted
        /\ voters[last.sender.id].vote = LastProposalId
        /\ LastOthersUnchanged({PreRecord.vote, LastProposalId})

\* An account has moved its vote onto a proposal that another account has
\* voted for.
C12_Witness ==
    /\ LastIsReVote
    /\ PreRecord.vote # LastProposalId
    /\ proposals[LastProposalId].vote_count >= 2
    /\ proposals[PreRecord.vote].vote_count = 0

\* The last call is a successful vote by an account whose record had
\* voted = false, that is, whose vote had been cancelled.
LastIsVoteAfterCancel ==
    /\ LastIsVote
    /\ last.err = "Ok"
    /\ LastSenderHadRecord
    /\ ~PreRecord.voted

\* C13 - Cancel then re-vote: a successful cancelVote lowers the vote_count of
\* the proposal the account's vote was on by the record's weight, sets
\* voted = false and touches nothing else; a successful vote by an account
\* whose vote was cancelled raises the vote_count of the proposal it names by
\* 1, decrements nothing, and leaves the account counted once, on that
\* proposal.
C13_CancelThenReVote ==
    /\ (last.op = "cancelVote" /\ last.err = "Ok") =>
          /\ LastSenderHadRecord
          /\ PreRecord.voted
          /\ proposals[PreRecord.vote].vote_count =
                 last.pre.proposals[PreRecord.vote].vote_count - PreRecord.weight
          /\ ~voters[last.sender.id].voted
          /\ LastOthersUnchanged({PreRecord.vote})
    /\ LastIsVoteAfterCancel =>
          /\ proposals[LastProposalId].vote_count =
                 last.pre.proposals[LastProposalId].vote_count + 1
          /\ voters[last.sender.id] =
                 [weight |-> 1, voted |-> TRUE, vote |-> LastProposalId]
          /\ LastOthersUnchanged({LastProposalId})

\* An account whose vote was cancelled has voted again, for a proposal other
\* than the one the cancelled record points at, while proposal 0 has votes.
C13_Witness ==
    /\ LastIsVoteAfterCancel
    /\ LastProposalId # PreRecord.vote
    /\ proposals[PreRecord.vote].vote_count >= 1

\* C14 - No partial mutation on failure: a vote, cancelVote or
\* winningProposal call that returns an error has written nothing: voter
\* ledger, vote counts, status and winning_proposal_id are as before the
\* call.
C14_NoPartialMutation ==
    last.err # "Ok" => LastUnchanged

\* An account without a record has voted, in time and before the tally, for
\* a proposal that does not exist; no record was created for it.
C14_Witness ==
    /\ LastIsVote
    /\ LastByAccount
    /\ last.pre.status = "InProcess"
    /\ last.slot_time <= expiry
    /\ last.err = "ProposalIsNotFound"
    /\ last.sender.id \notin DOMAIN voters
    /\ voters # EmptyMap

\* C15 - Dense proposal ids: after initialization with a list of N proposal
\* names the proposal table holds exactly N proposals, with ids 0..N-1, the
\* i-th name stored under id i with vote_count 0, whatever N is.
C15_DenseProposalIds ==
    last.op = "init" =>
        LET proposal_names == last.parameter
            N == Len(proposal_names)
        IN  /\ DOMAIN proposals = 0..(N - 1)
            /\ \A i \in 0..(N - 1) :
                   proposals[i] = [name |-> proposal_names[i + 1], vote_count |-> 0]

\* The last call has performed a decrement vote_count -= weight: a vote that
\* undid a previous vote, or a cancelVote.
LastDecrements ==
    /\ last.op \in {"vote", "cancelVote"}
    /\ last.err = "Ok"
    /\ LastSenderHadRecord
    /\ PreRecord.voted

\* C16 - No underflow: every decrement made by vote (undo) and by cancelVote
\* is applied to a proposal whose vote_count is at least the record's weight;
\* no vote_count is ever below zero, and in every reachable state the count
\* of the proposal each active record points at covers that record's weight.
C16_NoUnderflow ==
    /\ \A p \in DOMAIN proposals : proposals[p].vote_count >= 0
    /\ LastDecrements =>
          last.pre.proposals[PreRecord.vote].vote_count >= PreRecord.weight
    /\ \A a \in DOMAIN voters :
          voters[a].voted =>
              /\ voters[a].vote \in DOMAIN proposals
              /\ proposals[voters[a].vote].vote_count >= voters[a].weight

\* A cancelVote has taken a count from exactly the record's weight to zero.
C16_Witness ==
    /\ LastDecrements
    /\ last.op = "cancelVote"
    /\ last.pre.proposals[PreRecord.vote].vote_count = PreRecord.weight
    /\ proposals[PreRecord.vote].vote_count = 0

\* C17 - While status is InProcess winning_proposal_id is empty; the set
\* changes only in a successful winningProposal call, which starts from the
\* empty set and sets status to Finished.
C17_WinnersOnlyWhenFinished ==
    /\ status = "InProcess" => winning_proposal_id = {}
    /\ winning_proposal_id # last.pre.winning_proposal_id =>
          /\ last.op = "winningProposal"
          /\ last.err = "Ok"
          /\ last.pre.status = "InProcess"
          /\ status = "Finished"
    /\ (last.op = "winningProposal" /\ last.err = "Ok") =>
          last.pre.winning_proposal_id = {}

\* The tally has run on a ledger with votes and has filled the empty set.
C17_Witness ==
    /\ last.op = "winningProposal"
    /\ last.err = "Ok"
    /\ last.pre.winning_proposal_id = {}
    /\ winning_proposal_id # {}
    /\ \E a \in DOMAIN voters : voters[a].voted

\* C18 - Every voter record with voted = true has a vote field that is the
\* id of an existing proposal; so cancelVote never returns
\* ProposalIsNotFound, and a vote returns it only for a proposal id that
\* does not exist (never from the lookup of the previously voted proposal).
C18_VotedPointsAtProposal ==
    /\ \A a \in DOMAIN voters :
          voters[a].voted => voters[a].vote \in DOMAIN proposals
    /\ last.op = "cancelVote" => last.err # "ProposalIsNotFound"
    /\ (LastIsVote /\ last.err = "ProposalIsNotFound") =>
          LastProposalId \notin DOMAIN last.pre.proposals

\* A cancelVote has looked up the proposal of an active record, while
\* another record is active on a proposal other than proposal 0.
C18_Witness ==
    /\ last.op = "cancelVote"
    /\ last.err = "Ok"
    /\ \E a \in DOMAIN voters : voters[a].voted /\ voters[a].vote # 0

\* C19 - Outcome of a cancelVote by an account while status is InProcess and
\* time <= expiry: VoterIsNotFound when the caller has no record, NotVoted
\* when its record has voted = false (nothing is decremented), Ok when it has
\* voted = true.  A record exists exactly for the accounts that have voted
\* successfully: records are created by successful votes only and are never
\* removed.
C19_CancelOutcome ==
    /\ (/\ last.op = "cancelVote"
        /\ LastByAccount
        /\ last.pre.status = "InProcess"
        /\ last.slot_time <= last.pre.expiry) =>
          IF last.sender.id \notin DOMAIN last.pre.voters
          THEN last.err = "VoterIsNotFound" /\ LastUnchanged
          ELSE IF ~PreRecord.voted
          THEN last.err = "NotVoted" /\ LastUnchanged
          ELSE last.err = "Ok"
    /\ DOMAIN last.pre.voters \subseteq DOMAIN voters
    /\ DOMAIN voters # DOMAIN last.pre.voters => (LastIsVote /\ last.err = "Ok")

\* A cancelVote on a cancelled record, which carries vote = 0, has failed
\* with NotVoted while proposal 0 has votes to lose.
C19_Witness ==
    /\ last.op = "cancelVote"
    /\ last.err = "NotVoted"
    /\ PreRecord.vote = 0
    /\ proposals[0].vote_count >= 1

RECURSIVE SumVoteCount(_, _)
SumVoteCount(table, ids) ==
    IF ids = {} THEN 0
    ELSE LET p == CHOOSE x \in ids : TRUE
         IN  table[p].vote_count + SumVoteCount(table, ids \ {p})

\* C20 - Single active vote: every voter record has weight 1, and the sum of
\* vote_count over all proposals equals the number of accounts whose record
\* has voted = true.
C20_SingleActiveVote ==
    /\ \A a \in DOMAIN voters : voters[a].weight = 1
    /\ SumVoteCount(proposals, DOMAIN proposals) =
           Cardinality({a \in DOMAIN voters : voters[a].voted})

\* A vote has succeeded while one account's record is active and another's
\* is cancelled.
C20_Witness ==
    /\ LastIsVote
    /\ last.err = "Ok"
    /\ \E a, b \in DOMAIN voters : voters[a].voted /\ ~voters[b].voted

====
